---- MODULE Spec2Model ----
(***************************************************************************)
(* Model of NetworkPlanner (Calculatrice_cisco.py): the interactive input  *)
(* (gather_input), the capacity pre-check (check_capacity) and the VLSM    *)
(* allocation (calculate_vlsm), with the operations of Python's ipaddress  *)
(* module that the planner calls.                                          *)
(*                                                                         *)
(* An IPv4 network is a record [addr, prefixlen] with addr the integer     *)
(* network address.  A dotted-quad string is the tuple of its four decimal *)
(* octets; a CIDR string "a.b.c.d/p" is [ip |-> <<a,b,c,d>>,               *)
(* prefixlen |-> p].                                                       *)
(***************************************************************************)
EXTENDS Integers, Sequences, FiniteSets, TLC

VARIABLES pc, network, routers, nb_routers, router, subnets_n,
          total_needed, all_subnets, idx, allocations, remaining, console

vars == <<pc, network, routers, nb_routers, router, subnets_n,
          total_needed, all_subnets, idx, allocations, remaining, console>>

\* ------------------------------------------------------------------ bounds
\* Largest answer to "Nombre de routeurs".
MaxRouters == 3
\* Largest total number of LANs entered over all routers.
MaxLans == 3
\* Largest host count of the exhaustive prefix-derivation runs (SpecPrefix).
MaxHostCount == 600

\* Answers given to "Nombre d'utilisateurs": one host count per block size
\* /31, /30, /28 and one that the /24 clamp cuts (raw /23).
HostChoices == {0, 2, 10, 300}

\* Prefix lengths of the parent networks entered.
ParentPrefixes == {22, 24, 28, 29, 30, 32}

\* The address typed at the prompt, 10.0.5.77: it has host bits set for every
\* prefix length above, so that non-strict parsing has something to clear.
TypedAddress == (10 * 16777216) + (5 * 256) + 77

NetInputs == { [addr |-> TypedAddress, prefixlen |-> p] : p \in ParentPrefixes }

\* ------------------------------------------------------- program constants
MaxPrefixLen == 32
LanClamp == 24
P2PPrefix == 30
P2PAddresses == 4
P2PHosts == 2
P2PKey == 1000000

\* Python's None, for the variables that hold a network or a router.
None == [none |-> TRUE]

\* No exception was raised.
NoExc == "none"

\* ------------------------------------------------------------- ipaddress
Pow2(n) == 2 ^ n

\* int.bit_length(): the number of bits of n >= 0 (0 for 0).
RECURSIVE bit_length(_)
bit_length(n) == IF n = 0 THEN 0 ELSE 1 + bit_length(n \div 2)

\* ipaddress.IPv4Network(text, strict=False): the host bits are cleared.
IPv4Network(inp) ==
    [addr |-> inp.addr - (inp.addr % Pow2(MaxPrefixLen - inp.prefixlen)),
     prefixlen |-> inp.prefixlen]

num_addresses(net) == Pow2(MaxPrefixLen - net.prefixlen)

hostmask(net) == Pow2(MaxPrefixLen - net.prefixlen) - 1

broadcast_address(net) == net.addr + hostmask(net)

\* other.subnet_of(self)
subnet_of(other, self) ==
    /\ self.addr <= other.addr
    /\ broadcast_address(self) >= broadcast_address(other)

\* list(self.subnets(new_prefix=new_prefix)): a /32 yields itself whatever
\* new_prefix is; a new_prefix shorter than the network's raises ValueError.
subnets(self, new_prefix) ==
    IF self.prefixlen = MaxPrefixLen
      THEN [exc |-> NoExc, nets |-> <<self>>]
    ELSE IF new_prefix < self.prefixlen \/ new_prefix > MaxPrefixLen
      THEN [exc |-> "ValueError", nets |-> <<>>]
    ELSE LET diff == new_prefix - self.prefixlen
             step == (hostmask(self) + 1) \div Pow2(diff)
         IN  [exc |-> NoExc,
              nets |-> [i \in 1..Pow2(diff) |->
                          [addr |-> self.addr + ((i - 1) * step),
                           prefixlen |-> new_prefix]]]

\* Mutant of exclude_walk: the half that holds other is yielded, not its sibling.
exclude_walk_same_half(cur, other) ==
    LET halves == subnets(cur, cur.prefixlen + 1).nets
        s1 == halves[1]
        s2 == halves[2]
    IN  IF s1 = other THEN <<s2>>
        ELSE IF s2 = other THEN <<s1>>
        ELSE IF subnet_of(other, s1) THEN <<s1>>
        ELSE <<s2>>

\* The while loop of address_exclude: cur strictly contains other.
RECURSIVE exclude_walk(_, _)
exclude_walk(cur, other) ==
    LET halves == subnets(cur, cur.prefixlen + 1).nets
        s1 == halves[1]
        s2 == halves[2]
    IN  IF s1 = other THEN <<s2>>
        ELSE IF s2 = other THEN <<s1>>
        ELSE IF subnet_of(other, s1) THEN <<s2>> \o exclude_walk(s1, other)
        ELSE <<s1>> \o exclude_walk(s2, other)

\* list(self.address_exclude(other))
address_exclude(self, other) ==
    IF ~subnet_of(other, self) THEN [exc |-> "ValueError", nets |-> <<>>]
    ELSE IF other = self THEN [exc |-> NoExc, nets |-> <<>>]
    ELSE [exc |-> NoExc, nets |-> exclude_walk(self, other)]

\* str(IPv4Address(a)): the four decimal octets, most significant first.
dotted(a) ==
    <<a \div 16777216, (a \div 65536) % 256, (a \div 256) % 256, a % 256>>

\* Octet k (1..4) of the netmask of a prefix length.
mask_octet(p, k) ==
    LET bits == IF p >= 8 * k THEN 8
                ELSE IF p <= 8 * (k - 1) THEN 0
                ELSE p - (8 * (k - 1))
    IN  256 - Pow2(8 - bits)

\* str(subnet.netmask)
netmask_str(net) == [k \in 1..4 |-> mask_octet(net.prefixlen, k)]

\* str(subnet)
network_str(net) == [ip |-> dotted(net.addr), prefixlen |-> net.prefixlen]

\* ------------------------------------------------------------ the planner
Max(a, b) == IF a >= b THEN a ELSE b

\* "R{r}" and "LAN{s}" of gather_input.
router_name(r) == "R" \o ToString(r)
lan_name(s) == "LAN" \o ToString(s)

RECURSIVE lan_count(_)
lan_count(rs) ==
    IF rs = <<>> THEN 0 ELSE Len(Head(rs).subnets) + lan_count(Tail(rs))

\* Mutant of capacity_block: bit_length of needed, not of needed - 1.
capacity_block_bit_length_of_needed(hosts) ==
    LET needed == hosts + 2
    IN  Pow2(MaxPrefixLen - Max(MaxPrefixLen - bit_length(needed), LanClamp))

\* check_capacity, the term one LAN adds to total_needed.
capacity_block(hosts) ==
    LET needed == hosts + 2
    IN  Pow2(MaxPrefixLen - Max(MaxPrefixLen - bit_length(needed - 1), LanClamp))

RECURSIVE capacity_of_subnets(_)
capacity_of_subnets(ss) ==
    IF ss = <<>> THEN 0
    ELSE capacity_block(Head(ss).hosts) + capacity_of_subnets(Tail(ss))

RECURSIVE capacity_of_routers(_)
capacity_of_routers(rs) ==
    IF rs = <<>> THEN 0
    ELSE capacity_of_subnets(Head(rs).subnets) + capacity_of_routers(Tail(rs))

\* check_capacity, the value of total_needed when it is compared.
capacity_needed(rs) ==
    LET nb_p2p == (Len(rs) * (Len(rs) - 1)) \div 2
    IN  capacity_of_routers(rs) + (nb_p2p * P2PAddresses)

\* Mutant of capacity_exceeded: a sum equal to the number of addresses is rejected.
capacity_exceeded_on_equal(total, net) == total >= num_addresses(net)

\* check_capacity, the test that ends the run.
capacity_exceeded(total, net) == total > num_addresses(net)

\* Mutant of lan_prefix: the /24 clamp is left out.
lan_prefix_unclamped(hosts) ==
    LET needed == hosts + 2
    IN  MaxPrefixLen - bit_length(needed - 1)

\* calculate_vlsm, the prefix of a LAN demand.
lan_prefix(hosts) ==
    LET needed == hosts + 2
        prefix == MaxPrefixLen - bit_length(needed - 1)
    IN  Max(prefix, LanClamp)

\* calculate_vlsm, the LAN demands of one router, in input order.
lans_of(r) ==
    [k \in 1..Len(r.subnets) |->
        [type |-> "LAN",
         desc |-> r.name \o "-" \o r.subnets[k].name,
         hosts |-> r.subnets[k].hosts,
         prefix |-> lan_prefix(r.subnets[k].hosts)]]

RECURSIVE lan_demands(_)
lan_demands(rs) ==
    IF rs = <<>> THEN <<>> ELSE lans_of(Head(rs)) \o lan_demands(Tail(rs))

\* calculate_vlsm, the links of router i with every later router.
p2p_from(rs, i) ==
    [k \in 1..(Len(rs) - i) |->
        [type |-> "P2P",
         desc |-> rs[i].name \o "->" \o rs[i + k].name,
         hosts |-> P2PHosts,
         prefix |-> P2PPrefix]]

RECURSIVE p2p_demands(_, _)
p2p_demands(rs, i) ==
    IF i > Len(rs) THEN <<>> ELSE p2p_from(rs, i) \o p2p_demands(rs, i + 1)

\* all_subnets before the sort.
collect_subnets(rs) == lan_demands(rs) \o p2p_demands(rs, 1)

\* Mutant of sort_key: the sign of the host count is lost (ascending order).
sort_key_ascending(x) == IF x.type = "P2P" THEN P2PKey ELSE x.hosts

\* The key of all_subnets.sort.
sort_key(x) == IF x.type = "P2P" THEN P2PKey ELSE 0 - x.hosts

\* list.sort is stable: x goes after every element whose key is <= its own.
RECURSIVE insert_sorted(_, _)
insert_sorted(s, x) ==
    IF s = <<>> THEN <<x>>
    ELSE IF sort_key(Head(s)) <= sort_key(x)
      THEN <<Head(s)>> \o insert_sorted(Tail(s), x)
    ELSE <<x>> \o s

RECURSIVE sort_subnets(_)
sort_subnets(s) ==
    IF s = <<>> THEN <<>>
    ELSE insert_sorted(sort_subnets(SubSeq(s, 1, Len(s) - 1)), s[Len(s)])

\* Mutant of next_remaining: the last part, remaining_parts[-1].
next_remaining_last(remaining_parts) ==
    IF remaining_parts # <<>> THEN remaining_parts[Len(remaining_parts)] ELSE None

\* remaining_parts[0] if remaining_parts else None
next_remaining(remaining_parts) ==
    IF remaining_parts # <<>> THEN remaining_parts[1] ELSE None

\* The record appended to allocations for a demand and its subnet.
allocation_of(item, subnet) ==
    [type |-> item.type,
     desc |-> item.desc,
     network |-> network_str(subnet),
     mask |-> netmask_str(subnet),
     range |-> <<dotted(subnet.addr + 1), dotted(broadcast_address(subnet) - 1)>>,
     broadcast |-> dotted(broadcast_address(subnet))]

\* ----------------------------------------------------------------- state
\* A local variable that is not bound yet holds 0 (a number) or <<>> (a list).
Init ==
    /\ pc = "net"
    /\ network = None
    /\ routers = <<>>
    /\ nb_routers = 0
    /\ router = None
    /\ subnets_n = 0
    /\ total_needed = 0
    /\ all_subnets = <<>>
    /\ idx = 0
    /\ allocations = <<>>
    /\ remaining = None
    /\ console = <<>>

\* Where gather_input goes once a router is appended to self.routers.
after_router(rs) == IF Len(rs) = nb_routers THEN "check" ELSE "router"

\* gather_input: a valid network is typed (an invalid one only prints
\* "Adresse invalide" and asks again).
gather_network ==
    /\ pc = "net"
    /\ \E inp \in NetInputs : network' = IPv4Network(inp)
    /\ pc' = "nb_routers"
    /\ UNCHANGED <<routers, nb_routers, router, subnets_n, total_needed,
                   all_subnets, idx, allocations, remaining, console>>

\* gather_input: "Nombre de routeurs".
gather_nb_routers ==
    /\ pc = "nb_routers"
    /\ \E n \in 0..MaxRouters : nb_routers' = n
    /\ pc' = IF nb_routers' = 0 THEN "check" ELSE "router"
    /\ UNCHANGED <<network, routers, router, subnets_n, total_needed,
                   all_subnets, idx, allocations, remaining, console>>

\* gather_input: the prompts of one router up to its number of subnets.  The
\* "interfaces" answer is stored in the router and never read: it is left out.
gather_router ==
    /\ pc = "router"
    /\ \E n \in 0..(MaxLans - lan_count(routers)) :
         /\ subnets_n' = n
         /\ router' = [name |-> router_name(Len(routers) + 1), subnets |-> <<>>]
         /\ IF n = 0
              THEN /\ routers' = Append(routers, router')
                   /\ pc' = after_router(routers')
              ELSE /\ routers' = routers
                   /\ pc' = "hosts"
    /\ UNCHANGED <<network, nb_routers, total_needed,
                   all_subnets, idx, allocations, remaining, console>>

\* gather_input: the host count of the next subnet of the current router.
gather_hosts ==
    /\ pc = "hosts"
    /\ \E hosts \in HostChoices :
         LET s == Len(router.subnets) + 1
         IN  /\ router' = [router EXCEPT !.subnets =
                             Append(@, [name |-> lan_name(s), hosts |-> hosts])]
             /\ IF s = subnets_n
                  THEN /\ routers' = Append(routers, router')
                       /\ pc' = after_router(routers')
                  ELSE /\ routers' = routers
                       /\ pc' = "hosts"
    /\ UNCHANGED <<network, nb_routers, subnets_n, total_needed,
                   all_subnets, idx, allocations, remaining, console>>

\* check_capacity: sys.exit(1) when the demands need more than the network has.
check_capacity ==
    /\ pc = "check"
    /\ total_needed' = capacity_needed(routers)
    /\ IF capacity_exceeded(total_needed', network)
         THEN /\ console' = Append(console,
                     <<"trop_petit", total_needed', num_addresses(network)>>)
              /\ pc' = "exit1"
         ELSE /\ console' = console
              /\ pc' = "vlsm"
    /\ UNCHANGED <<network, routers, nb_routers, router, subnets_n,
                   all_subnets, idx, allocations, remaining>>

\* calculate_vlsm up to the sort: the demands are collected and ordered.
calculate_vlsm ==
    /\ pc = "vlsm"
    /\ allocations' = <<>>
    /\ remaining' = network
    /\ all_subnets' = sort_subnets(collect_subnets(routers))
    /\ idx' = 1
    /\ pc' = "loop"
    /\ UNCHANGED <<network, routers, nb_routers, router, subnets_n,
                   total_needed, console>>

\* One iteration of the allocation loop.  A ValueError of subnets() is not an
\* IndexError: it leaves calculate_vlsm and run.
allocate ==
    /\ pc = "loop"
    /\ idx <= Len(all_subnets)
    /\ LET item == all_subnets[idx]
           res == subnets(remaining, item.prefix)
       IN  IF res.exc # NoExc
             THEN /\ pc' = "ValueError"
                  /\ UNCHANGED <<idx, allocations, remaining, console>>
           ELSE IF DOMAIN res.nets = {}
             THEN /\ console' = Append(console, <<"impossible", item.desc>>)
                  /\ idx' = idx + 1
                  /\ pc' = "loop"
                  /\ UNCHANGED <<allocations, remaining>>
           ELSE LET subnet == res.nets[1]
                    remaining_parts == address_exclude(remaining, subnet)
                IN  /\ allocations' = Append(allocations, allocation_of(item, subnet))
                    /\ IF remaining_parts.exc # NoExc
                         THEN /\ pc' = "ValueError"
                              /\ UNCHANGED <<idx, remaining, console>>
                       ELSE /\ remaining' = next_remaining(remaining_parts.nets)
                            /\ idx' = idx + 1
                            /\ IF remaining' = None
                                 THEN /\ console' = Append(console, <<"epuise">>)
                                      /\ pc' = "returned"
                                 ELSE /\ console' = console
                                      /\ pc' = "loop"
    /\ UNCHANGED <<network, routers, nb_routers, router, subnets_n,
                   total_needed, all_subnets>>

\* The loop has gone through all_subnets: return allocations.
return_allocations ==
    /\ pc = "loop"
    /\ idx > Len(all_subnets)
    /\ pc' = "returned"
    /\ UNCHANGED <<network, routers, nb_routers, router, subnets_n, total_needed,
                   all_subnets, idx, allocations, remaining, console>>

\* calculate_vlsm called on the planner as gather_input left it.
call_calculate_vlsm ==
    /\ pc = "check"
    /\ pc' = "vlsm"
    /\ UNCHANGED <<network, routers, nb_routers, router, subnets_n, total_needed,
                   all_subnets, idx, allocations, remaining, console>>

gather_input == gather_network \/ gather_nb_routers \/ gather_router \/ gather_hosts

\* run(): gather_input, check_capacity, calculate_vlsm.
Next == gather_input \/ check_capacity \/ calculate_vlsm \/ allocate
        \/ return_allocations

Spec == Init /\ [][Next]_vars

\* calculate_vlsm alone, on every planner gather_input can build.
NextVlsm == gather_input \/ call_calculate_vlsm \/ calculate_vlsm \/ allocate
            \/ return_allocations

SpecVlsm == Init /\ [][NextVlsm]_vars

\* The prefix derivation alone: one router with two LANs of h and h + 1 hosts,
\* for every h up to MaxHostCount, in a network that holds them.
InitPrefix ==
    /\ pc = "check"
    /\ network = IPv4Network([addr |-> TypedAddress, prefixlen |-> 22])
    /\ \E h \in 0..MaxHostCount :
         router = [name |-> router_name(1),
                   subnets |-> <<[name |-> lan_name(1), hosts |-> h],
                                 [name |-> lan_name(2), hosts |-> h + 1]>>]
    /\ routers = <<router>>
    /\ nb_routers = 1
    /\ subnets_n = 2
    /\ total_needed = 0
    /\ all_subnets = <<>>
    /\ idx = 0
    /\ allocations = <<>>
    /\ remaining = None
    /\ console = <<>>

NextPrefix == check_capacity \/ calculate_vlsm \/ allocate \/ return_allocations

SpecPrefix == InitPrefix /\ [][NextPrefix]_vars

\* ---------------------------------------------------------------- claims
\* int(IPv4Address("a.b.c.d"))
ip_int(o) == (o[1] * 16777216) + (o[2] * 65536) + (o[3] * 256) + o[4]

\* First and last address of the network an allocation names.
alloc_first(a) == ip_int(a.network.ip)
alloc_last(a) == ip_int(a.network.ip) + Pow2(MaxPrefixLen - a.network.prefixlen) - 1

InVlsm == pc \in {"loop", "returned", "ValueError"}

\* The demands recorded as skipped ("Impossible d'allouer ...").
Skipped == { i \in 1..Len(console) : console[i][1] = "impossible" }

\* Position of the demand described by d in a list of demands.
PosOf(s, d) == CHOOSE i \in 1..Len(s) : s[i].desc = d

\* C1: in every state of the allocation loop the subnets allocated so far are
\* pairwise disjoint and each lies inside the parent network.
C1_DisjointInParent ==
    InVlsm =>
      /\ \A i \in 1..Len(allocations) :
           /\ network.addr <= alloc_first(allocations[i])
           /\ alloc_last(allocations[i]) <= broadcast_address(network)
      /\ \A i, j \in 1..Len(allocations) :
           i < j => \/ alloc_last(allocations[i]) < alloc_first(allocations[j])
                    \/ alloc_last(allocations[j]) < alloc_first(allocations[i])

\* Three subnets of three different sizes have been allocated.
C1_Witness ==
    /\ pc = "loop"
    /\ Len(allocations) = 3
    /\ Cardinality({allocations[i].network.prefixlen : i \in 1..3}) = 3

\* C2 (as claimed): when calculate_vlsm returns, every demand is in the plan
\* or recorded as skipped.
C2_EveryDemandHandled ==
    pc = "returned" =>
      Len(allocations) + Cardinality(Skipped) = Len(all_subnets)

\* C3 (as claimed): after a successful allocation the free pool (remaining)
\* and the allocated subnets cover every address of the parent, and the pool
\* holds no allocated address.
C3_PoolIsComplement ==
    (InVlsm /\ Len(allocations) > 0) =>
      \A a \in network.addr..broadcast_address(network) :
        LET allocated == \E i \in 1..Len(allocations) :
                           /\ alloc_first(allocations[i]) <= a
                           /\ a <= alloc_last(allocations[i])
            free == /\ remaining # None
                    /\ remaining.addr <= a
                    /\ a <= broadcast_address(remaining)
        IN  allocated # free

\* C4 (as claimed): a demand that no free block can hold (the free block's
\* prefix is longer than the demand's) is recorded as skipped, the plan and
\* the pool stay as they are, and the loop goes on to the next demand.
C4_SkipAndContinue ==
    [][(/\ pc = "loop"
        /\ idx <= Len(all_subnets)
        /\ remaining.prefixlen > all_subnets[idx].prefix)
       => /\ pc' = "loop"
          /\ idx' = idx + 1
          /\ allocations' = allocations
          /\ remaining' = remaining
          /\ console' = Append(console, <<"impossible", all_subnets[idx].desc>>)]_vars

\* C4 (as claimed), the run does not raise.
C4_NeverRaises == pc # "ValueError"

\* 2^(32 - prefix) summed over a list of sized demands.
RECURSIVE SumBlocks(_)
SumBlocks(s) ==
    IF s = <<>> THEN 0
    ELSE Pow2(MaxPrefixLen - Head(s).prefix) + SumBlocks(Tail(s))

LinkDemands(s) == { i \in 1..Len(s) : s[i].type = "P2P" }

\* C5: check_capacity rejects exactly when the blocks of the sized demands
\* (the LANs at their clamped prefix and one /30 for each of the R*(R-1)/2
\* links) add up to more than the parent's addresses; equality is accepted.
C5_CapacityIff ==
    LET demands == collect_subnets(routers)
        R == Len(routers)
    IN  pc \in {"exit1", "vlsm", "loop", "returned", "ValueError"} =>
          /\ Cardinality(LinkDemands(demands)) * 2 = R * (R - 1)
          /\ total_needed = SumBlocks(demands)
          /\ (pc = "exit1") <=> (SumBlocks(demands) > num_addresses(network))

\* A run accepted with the sum equal to the number of addresses, with links.
C5_Witness ==
    /\ pc = "vlsm"
    /\ total_needed = num_addresses(network)
    /\ Len(routers) = 3
    /\ lan_count(routers) > 0

\* The blocks get strictly smaller along the allocation order.
StrictlyDecreasing(s) ==
    \A i \in 1..(Len(s) - 1) : s[i].prefix < s[i + 1].prefix

\* C6: when the pre-check passed and the block sizes are strictly decreasing
\* in allocation order, every demand gets its allocation, at its own size, and
\* nothing is skipped or dropped.
C6_AllAllocated ==
    (pc \in {"returned", "ValueError"} /\ StrictlyDecreasing(all_subnets)) =>
      /\ pc = "returned"
      /\ Skipped = {}
      /\ Len(allocations) = Len(all_subnets)
      /\ \A i \in 1..Len(allocations) :
           /\ allocations[i].desc = all_subnets[i].desc
           /\ allocations[i].network.prefixlen = all_subnets[i].prefix

\* Three demands of strictly decreasing sizes, one of them a link, allocated.
C6_Witness ==
    /\ pc = "returned"
    /\ StrictlyDecreasing(all_subnets)
    /\ Len(all_subnets) = 3
    /\ Len(allocations) = 3
    /\ LinkDemands(all_subnets) # {}

\* C7 (as claimed): no allocation has a prefix longer than /30, and every
\* usable range has low <= high.
C7_NoDegenerateAllocation ==
    InVlsm =>
      \A i \in 1..Len(allocations) :
        /\ allocations[i].network.prefixlen <= 30
        /\ ip_int(allocations[i].range[1]) <= ip_int(allocations[i].range[2])

\* The least k with 2^k >= n.
CeilLog2(n) ==
    CHOOSE k \in 0..30 : Pow2(k) >= n /\ \A j \in 0..(k - 1) : Pow2(j) < n

DerivePrefix(h) == Max(MaxPrefixLen - CeilLog2(h + 2), LanClamp)

RECURSIVE SumDerived(_)
SumDerived(ss) ==
    IF ss = <<>> THEN 0
    ELSE Pow2(MaxPrefixLen - DerivePrefix(Head(ss).hosts)) + SumDerived(Tail(ss))

\* C8: the prefix of a LAN of h hosts is max(32 - ceil(log2(h + 2)), 24),
\* which is 32 - bit_length(h + 1) clamped to 24, in check_capacity (whose
\* total is the sum of the blocks of that size) and in calculate_vlsm, and it
\* does not grow with h.
C8_PrefixDerivation ==
    /\ pc # "check" => total_needed = SumDerived(routers[1].subnets)
    /\ InVlsm =>
         /\ \A i \in 1..Len(all_subnets) :
              /\ all_subnets[i].prefix = DerivePrefix(all_subnets[i].hosts)
              /\ bit_length(all_subnets[i].hosts + 1)
                   = CeilLog2(all_subnets[i].hosts + 2)
         /\ \A i, j \in 1..Len(all_subnets) :
              all_subnets[i].hosts <= all_subnets[j].hosts
                => all_subnets[i].prefix >= all_subnets[j].prefix

\* A LAN whose raw prefix is shorter than /24 was sized at /24 and allocated.
C8_Witness ==
    /\ pc = "returned"
    /\ Len(allocations) = 2
    /\ \E i \in 1..Len(all_subnets) :
         /\ all_subnets[i].hosts = MaxHostCount
         /\ MaxPrefixLen - bit_length(all_subnets[i].hosts + 1) < LanClamp
         /\ all_subnets[i].prefix = LanClamp

\* C9: all_subnets, and so the plan, holds the LANs by descending host count,
\* equal host counts in input order, then the links in generation order.
C9_AllocationOrder ==
    InVlsm =>
      LET input == collect_subnets(routers)
      IN  /\ Len(all_subnets) = Len(input)
          /\ \A d \in 1..Len(input) :
               \E i \in 1..Len(all_subnets) : all_subnets[i] = input[d]
          /\ \A i, j \in 1..Len(all_subnets) :
               i < j =>
                 LET x == all_subnets[i]
                     y == all_subnets[j]
                     inputOrder == PosOf(input, x.desc) < PosOf(input, y.desc)
                 IN  /\ x.type = "P2P" => y.type = "P2P"
                     /\ (x.type = "LAN" /\ y.type = "LAN") => x.hosts >= y.hosts
                     /\ (x.type = "LAN" /\ y.type = "LAN" /\ x.hosts = y.hosts)
                          => inputOrder
                     /\ (x.type = "P2P" /\ y.type = "P2P") => inputOrder
          /\ \A i, j \in 1..Len(allocations) :
               i < j => PosOf(all_subnets, allocations[i].desc)
                          < PosOf(all_subnets, allocations[j].desc)

\* Two LANs of equal host count were entered before a larger one, there are
\* three links, and at least three demands are in the plan.
C9_Witness ==
    /\ InVlsm
    /\ Len(routers) = 3
    /\ \E i, j \in 1..Len(all_subnets) :
         /\ i < j
         /\ all_subnets[i].type = "LAN"
         /\ all_subnets[j].type = "LAN"
         /\ all_subnets[i].hosts = all_subnets[j].hosts
    /\ collect_subnets(routers) # all_subnets
    /\ Len(allocations) >= 3

\* C10: the free space is one block or None; while it is not exhausted its
\* prefix is the parent's plus the number of allocations made, so the plan
\* never holds more than 33 - P allocations.
C10_OneBlockPerAllocation ==
    InVlsm =>
      /\ remaining = None => pc = "returned"
      /\ remaining # None =>
           /\ remaining.prefixlen = network.prefixlen + Len(allocations)
           /\ subnet_of(remaining, network)
      /\ Len(allocations) <= 33 - network.prefixlen

\* Three allocations made and the free block three bits longer than the parent.
C10_Witness ==
    /\ pc = "loop"
    /\ Len(allocations) = 3
    /\ remaining.prefixlen = network.prefixlen + 3

====
